---- MODULE Spec2Model ----
(***************************************************************************)
(* bevy_keymapper: the binding table (Keymapper<T>) and the per-frame      *)
(* runner (keymaps_runner_system) of src/src/lib.rs.                       *)
(*                                                                         *)
(* State: the Keymapper<T> resource (whether it exists, its keymaps Vec),  *)
(* the part of the World the bound systems read and write (which           *)
(* resources are present), `removed`, the (label, keycode) pairs of the    *)
(* bindings remove() took out and whose label was not added again, and     *)
(* `obs`, the record of what the last operation did (the calls the runner  *)
(* made on the boxed systems, the value each Keymapper::run returned, the  *)
(* error! lines written, the table and the World it started from).         *)
(***************************************************************************)
EXTENDS Naturals, Sequences, FiniteSets

VARIABLES exists, keymaps, world, removed, obs

vars == <<exists, keymaps, world, removed, obs>>

(***************************************************************************)
(* Bounds and the finite universes the inputs are drawn from.              *)
(***************************************************************************)
MaxLen == 3

\* The most commands left staged in the buffer of one system
MaxStaged == 2

Labels == {"A", "B"}

KeyCodes == {"Space", "KeyX"}

Resources == {"R"}

\* The systems a caller binds.  "ins": fn(mut commands: Commands), queues
\* insert_resource(R).  "take": fn(r: Res<R>, mut commands: Commands), whose
\* run fails when R is absent (as debug_system(stats: Res<PlayerStats>) of
\* the example would) and which queues remove_resource::<R>().
SystemFns == {"ins", "take"}

\* The callbacks that reach for the runner's own inputs.  "press":
\* fn(mut input: ResMut<ButtonInput<KeyCode>>), whose body is
\* input.reset_all(); input.press(KeyCode::KeyX).  "unbind":
\* fn(mut manager: ResMut<Keymapper<T>>), whose body is manager.remove(B)
\* and whose run fails when Keymapper<T> is not in the World.
CallbackFns == {"press", "unbind"}

\* The systems whose run can return Err.  "take" as above: its parameter
\* validation fails, before the body is entered.  "stage":
\* fn(r: Option<Res<R>>, mut commands: Commands) -> Result, whose body, when
\* R is absent, queues insert_resource(R) and returns Err, and otherwise
\* returns Ok(()).
FailingFns == {"take", "stage"}

(***************************************************************************)
(* The boxed system of a Keymap: dyn System<In = (), Out = ()>.            *)
(***************************************************************************)
\* IntoSystem::into_system(system): a system nothing was called on yet.
\* inits counts the initialize calls made on it, attempted says whether run
\* was ever called on it, queue is its buffer of deferred commands.
IntoSystem(fn) == [fn |-> fn, inits |-> 0, attempted |-> FALSE, queue |-> <<>>]

\* system.initialize(world): prepares the system; no resource of the World
\* changes value.
Initialize(sys) == [sys EXCEPT !.inits = @ + 1]

\* Whether system.run((), world) succeeds: a Res<R> parameter is validated
\* against the World, a ResMut<Keymapper<T>> parameter against the presence
\* of Keymapper<T> in the World.
Validates(fn, w, manager_in_world) ==
    /\ (fn = "take") => ("R" \in w)
    /\ (fn = "unbind") => manager_in_world

\* The deferred commands the body of the system queues.
RunQueued(fn) ==
    IF fn = "ins" THEN <<[cmd |-> "insert", res |-> "R"]>>
    ELSE IF fn = "take" THEN <<[cmd |-> "remove", res |-> "R"]>>
    ELSE <<>>

\* Whether the body of the system, entered against the World w, returns Err.
BodyFails(fn, w) == fn = "stage" /\ "R" \notin w

\* The deferred commands the body had queued when it returned Err; none
\* when the run failed in parameter validation.
RunQueuedErr(fn) == IF fn = "stage" THEN <<[cmd |-> "insert", res |-> "R"]>> ELSE <<>>

\* What the body of the system writes through ResMut<ButtonInput<KeyCode>>
\* while it runs: reset_all() empties the pressed and just-pressed sets,
\* press(KeyX) inserts KeyX in both.
RunDirect(fn, input) ==
    IF fn = "press" THEN [pressed |-> {"KeyX"}, just_pressed |-> {"KeyX"}] ELSE input

\* One queued command applied to the World.
ApplyCommand(c, w) == IF c.cmd = "insert" THEN w \cup {c.res} ELSE w \ {c.res}

RECURSIVE ApplyQueue(_, _)
\* system.apply_deferred(world): the queued commands are applied in order
ApplyQueue(queue, w) ==
    IF queue = <<>> THEN w ELSE ApplyQueue(Tail(queue), ApplyCommand(Head(queue), w))

(***************************************************************************)
(* Keymap<T>                                                               *)
(***************************************************************************)
\* (mutant) the keymap is built as if its system were prepared already
NewKeymapInitialized(label, keycode, fn) ==
    [label |-> label, keycode |-> keycode, system |-> Initialize(IntoSystem(fn)),
     initialized |-> TRUE]

\* Keymap::new(label, keycode, system)
NewKeymap(label, keycode, fn) ==
    [label |-> label, keycode |-> keycode, system |-> IntoSystem(fn),
     initialized |-> FALSE]

(***************************************************************************)
(* Keymapper<T>::remove: self.keymaps.retain(|k| k.label != label)         *)
(***************************************************************************)
RECURSIVE RemoveFirst(_, _)
\* (mutant) removes only the first keymap with the label
RemoveFirst(ks, label) ==
    IF ks = <<>> THEN <<>>
    ELSE IF Head(ks).label = label THEN Tail(ks)
    ELSE <<Head(ks)>> \o RemoveFirst(Tail(ks), label)

\* (mutant) the test of retain inverted: keeps the keymaps with the label
RetainInverted(ks, label) == SelectSeq(ks, LAMBDA k : k.label = label)

Retain(ks, label) == SelectSeq(ks, LAMBDA k : k.label # label)

(***************************************************************************)
(* Keymapper<T>::new(keymaps): Self { keymaps }                            *)
(***************************************************************************)
\* (mutant) every keymap of the new table starts with initialized = false
KeymapperNewReset(given) == [i \in DOMAIN given |-> [given[i] EXCEPT !.initialized = FALSE]]

KeymapperNew(given) == given

(***************************************************************************)
(* Keymapper<T>::run(world, keycode)                                       *)
(* A run state st is [keymaps, world, manager_in_world, input, calls,      *)
(* returns, result, logged]: calls is the list of calls made on the        *)
(* systems so far in this tick, input the ButtonInput in the World.        *)
(***************************************************************************)
Call(i, op, w) == [i |-> i, op |-> op, world |-> w]

\* (mutant) the test is inverted
MatchesNot(keymap, keycode) == keymap.keycode # keycode

\* (mutant) every keymap is taken to match
MatchesAny(keymap, keycode) == TRUE

\* if keymap.keycode == keycode
Matches(keymap, keycode) == keymap.keycode = keycode

\* (mutant) initializes on every matching tick
NeedsInitializeAlways(keymap) == TRUE

\* if !keymap.initialized
NeedsInitialize(keymap) == ~keymap.initialized

\* keymap.system.initialize(world); keymap.initialized = true;
InitializeStep(st, i) ==
    IF NeedsInitialize(st.keymaps[i])
    THEN [st EXCEPT !.keymaps[i].system = Initialize(@),
                    !.keymaps[i].initialized = TRUE,
                    !.calls = Append(@, Call(i, "initialize", st.world))]
    ELSE st

\* (mutant) the deferred commands stay queued
ApplyDeferredSkipped(st, i) == st

\* keymap.system.apply_deferred(world)
ApplyDeferredStep(st, i) ==
    [st EXCEPT !.world = ApplyQueue(st.keymaps[i].system.queue, @),
               !.keymaps[i].system.queue = <<>>,
               !.calls = Append(@, Call(i, "apply_deferred", st.world))]

\* keymap.system.run((), world) returning Ok
RunOkStep(st, i) ==
    LET fn == st.keymaps[i].system.fn
    IN [st EXCEPT !.keymaps[i].system.attempted = TRUE,
                  !.keymaps[i].system.queue = @ \o RunQueued(fn),
                  !.input = RunDirect(fn, @),
                  !.calls = Append(@, Call(i, "run_ok", st.world))]

\* (mutant) a failed run clears the initialized flag
RunErrStepResets(st, i) ==
    [st EXCEPT !.keymaps[i].system.attempted = TRUE,
               !.keymaps[i].initialized = FALSE,
               !.calls = Append(@, Call(i, "run_err", st.world))]

\* keymap.system.run((), world) returning Err: what the body queued before
\* it failed stays in the buffer of the system
RunErrStep(st, i) ==
    LET fn == st.keymaps[i].system.fn
    IN [st EXCEPT !.keymaps[i].system.attempted = TRUE,
                  !.keymaps[i].system.queue = @ \o RunQueuedErr(fn),
                  !.calls = Append(@, Call(i, "run_err", st.world))]

RECURSIVE RunFrom(_, _, _)

\* (mutant) the error is dropped and the loop goes on
RunFailedContinue(st, keycode, i) == RunFrom(st, keycode, i + 1)

\* (mutant) apply_deferred is called on the failed system before run returns
RunFailedApplies(st, keycode, i) == [ApplyDeferredStep(st, i) EXCEPT !.result = "err"]

\* the `?` of keymap.system.run((), world)?: run returns the error at once
RunFailed(st, keycode, i) == [st EXCEPT !.result = "err"]

\* for keymap in &mut self.keymaps { ... } from index i on; Ok(()) at the end
RunFrom(st, keycode, i) ==
    IF i > Len(st.keymaps) THEN st
    ELSE IF ~Matches(st.keymaps[i], keycode) THEN RunFrom(st, keycode, i + 1)
    ELSE LET st1 == InitializeStep(st, i)
         IN IF /\ Validates(st1.keymaps[i].system.fn, st1.world, st1.manager_in_world)
               /\ ~BodyFails(st1.keymaps[i].system.fn, st1.world)
            THEN RunFrom(ApplyDeferredStep(RunOkStep(st1, i), i), keycode, i + 1)
            ELSE RunFailed(RunErrStep(st1, i), keycode, i)

\* (mutant) the key is dispatched only if the live input still has it
KeymapperRunIfLive(st, keycode) ==
    IF keycode \in st.input.just_pressed THEN RunFrom(st, keycode, 1) ELSE st

KeymapperRun(st, keycode) == RunFrom(st, keycode, 1)

(***************************************************************************)
(* keymaps_runner_system                                                   *)
(***************************************************************************)
\* The orders in which a HashSet of keys may be iterated.
Orderings(S) ==
    {s \in [1..Cardinality(S) -> S] : \A a, b \in 1..Cardinality(S) : s[a] = s[b] => a = b}

\* (mutant) dispatches the held keys
GetPressed(input) == input.pressed

\* keyboard_input.get_just_pressed()
GetJustPressed(input) == input.just_pressed

RECURSIVE DispatchFrom(_, _, _)

\* (mutant) the error is logged and the next keycode is dispatched
DispatchFailedContinue(st, keycodes, j) ==
    DispatchFrom([st EXCEPT !.result = "ok", !.logged = @ + 1], keycodes, j + 1)

\* the `?` of manager.run(world, keycode)?: the closure returns the error
DispatchFailed(st, keycodes, j) == st

\* for keycode in keycodes { manager.run(world, keycode)?; } Ok(())
DispatchFrom(st, keycodes, j) ==
    IF j > Len(keycodes) THEN st
    ELSE LET r == KeymapperRun(st, keycodes[j])
             st1 == [r EXCEPT !.returns = Append(@, [keycode |-> keycodes[j], result |-> r.result])]
         IN IF r.result = "ok" THEN DispatchFrom(st1, keycodes, j + 1)
            ELSE DispatchFailed(st1, keycodes, j)

\* if let Err(e) = result { error!("Keymapper error: {}", e); }
LogResult(st) == IF st.result = "err" THEN [st EXCEPT !.logged = @ + 1] ELSE st

\* (mutant) Keymapper<T> stays in the World while the closure runs
ScopeTakeKeeps(st) == st

\* world.resource_scope(|world, mut manager| ...) entering the closure:
\* Keymapper<T> is taken out of the World and handed to the closure
ScopeTake(st) == [st EXCEPT !.manager_in_world = FALSE]

\* (mutant) Keymapper<T> is put back only when the closure returned Ok
ScopeReinsertOnOk(st) == [st EXCEPT !.manager_in_world = (st.result = "ok")]

\* resource_scope after the closure returned, Ok or Err: Keymapper<T> is
\* put back in the World
ScopeReinsert(st) == [st EXCEPT !.manager_in_world = TRUE]

\* The whole runner on the table ks and World w whose ButtonInput is input,
\* with the just-pressed keys collected in the order keycodes
RunnerSystemOn(ks, w, input, keycodes) ==
    LogResult(ScopeReinsert(DispatchFrom(
        ScopeTake([keymaps |-> ks, world |-> w, manager_in_world |-> TRUE,
                   input |-> input, calls |-> <<>>,
                   returns |-> <<>>, result |-> "ok", logged |-> 0]),
        keycodes, 1)))

\* The keys of the Vec keycodes
Range(keycodes) == {keycodes[n] : n \in DOMAIN keycodes}

\* The runner for systems that take no ButtonInput parameter: the keys held
\* from earlier frames make no difference to them
RunnerSystem(ks, w, keycodes) ==
    RunnerSystemOn(ks, w, [pressed |-> Range(keycodes), just_pressed |-> Range(keycodes)],
                   keycodes)

(***************************************************************************)
(* The state machine                                                       *)
(***************************************************************************)
NoObs ==
    [op |-> "start", label |-> "A", keycode |-> "Space", fn |-> "ins", given |-> <<>>,
     just |-> {}, keycodes |-> <<>>, input |-> [pressed |-> {}, just_pressed |-> {}],
     calls |-> <<>>,
     returns |-> <<>>, result |-> "ok", logged |-> 0, prev_failed |-> {},
     pre_exists |-> FALSE, pre_keymaps |-> <<>>, pre_world |-> {}]

\* The table indices whose run returned Err among calls
FailedCalls(calls) == {calls[n].i : n \in {m \in DOMAIN calls : calls[m].op = "run_err"}}

\* App::new(), with or without the resource R inserted; no Keymapper<T> yet
Init ==
    /\ exists = FALSE
    /\ keymaps = <<>>
    /\ world \in SUBSET Resources
    /\ removed = {}
    /\ obs = NoObs

\* App::add_keymap(label, keycode, system)
AddKeymap(label, keycode, fn) ==
    /\ Len(keymaps) < MaxLen
    /\ exists' = TRUE
    /\ keymaps' = Append(IF exists THEN keymaps ELSE KeymapperNew(<<>>),
                         NewKeymap(label, keycode, fn))
    /\ removed' = {x \in removed : x.label # label}
    /\ obs' = [NoObs EXCEPT !.op = "add", !.label = label, !.keycode = keycode, !.fn = fn,
                            !.pre_exists = exists,
                            !.pre_keymaps = keymaps, !.pre_world = world]
    /\ UNCHANGED world

\* The positions from which host code takes the keymaps out of a table: all
\* of them, or all but the first
DrainFrom == {1, 2}

\* Host code takes keymaps out of the pub keymaps field of the table
\* (drain(a - 1 ..) of the Vec) and installs Keymapper::new(given) as the
\* Keymapper<T> resource.
Rebuild(a) ==
    /\ exists
    /\ a <= Len(keymaps) + 1
    /\ LET given == SubSeq(keymaps, a, Len(keymaps))
       IN /\ keymaps' = KeymapperNew(given)
          /\ obs' = [NoObs EXCEPT !.op = "keymapper_new", !.given = given]
    /\ UNCHANGED <<exists, world, removed>>

\* manager.remove(label), by host code holding the Keymapper<T> resource
Remove(label) ==
    /\ exists
    /\ keymaps' = Retain(keymaps, label)
    /\ removed' = removed \cup {[label |-> keymaps[i].label, keycode |-> keymaps[i].keycode] :
                                    i \in {n \in DOMAIN keymaps : keymaps[n].label = label}}
    /\ obs' = [NoObs EXCEPT !.op = "remove", !.label = label, !.pre_exists = exists,
                            !.pre_keymaps = keymaps, !.pre_world = world]
    /\ UNCHANGED <<exists, world>>

\* ButtonInput<KeyCode>: the keys held and, among them, the keys just pressed
Inputs ==
    {x \in [pressed : SUBSET KeyCodes, just_pressed : SUBSET KeyCodes] :
        x.just_pressed \subseteq x.pressed}

\* let keycodes: Vec<KeyCode> = keyboard_input.get_just_pressed().copied().collect();
\* what a frame hands to the dispatch loop: the just-pressed set of its
\* ButtonInput and the Vec collected from it, in any iteration order
Frames ==
    UNION {{[just |-> x.just_pressed, keycodes |-> ks] : ks \in Orderings(GetJustPressed(x))} :
             x \in Inputs}

\* One frame: keymaps_runner_system::<T>(world) with the frame's ButtonInput.
\* Without the Keymapper<T> resource resource_scope panics.
Tick(frame) ==
    /\ exists
    /\ \E r \in {RunnerSystem(keymaps, world, frame.keycodes)} :
          /\ \A i \in DOMAIN r.keymaps : Len(r.keymaps[i].system.queue) <= MaxStaged
          /\ exists' = r.manager_in_world
          /\ keymaps' = r.keymaps
          /\ world' = r.world
          /\ obs' = [NoObs EXCEPT !.op = "tick", !.just = frame.just,
                                  !.keycodes = frame.keycodes, !.input = r.input,
                                  !.calls = r.calls,
                                  !.returns = r.returns, !.result = r.result,
                                  !.logged = r.logged,
                                  !.prev_failed = FailedCalls(obs.calls),
                                  !.pre_exists = exists,
                                  !.pre_keymaps = keymaps, !.pre_world = world]
    /\ UNCHANGED removed

Next ==
    \/ \E l \in Labels, k \in KeyCodes, fn \in SystemFns : AddKeymap(l, k, fn)
    \/ \E l \in Labels : Remove(l)
    \/ \E frame \in Frames : Tick(frame)

Spec == Init /\ [][Next]_vars

(***************************************************************************)
(* The table built up by add_keymap, dispatched, and rebuilt with          *)
(* Keymapper::new from keymaps taken out of it.                            *)
(***************************************************************************)
NextNew ==
    \/ \E l \in Labels, k \in KeyCodes, fn \in SystemFns : AddKeymap(l, k, fn)
    \/ \E frame \in Frames : Tick(frame)
    \/ \E a \in DrainFrom : Rebuild(a)

SpecNew == Init /\ [][NextNew]_vars

(***************************************************************************)
(* The table with systems whose run returns Err, in parameter validation   *)
(* or from the body after it queued commands.                              *)
(***************************************************************************)
NextFail ==
    \/ \E l \in Labels, k \in KeyCodes, fn \in FailingFns : AddKeymap(l, k, fn)
    \/ \E frame \in Frames : Tick(frame)

SpecFail == Init /\ [][NextFail]_vars

(***************************************************************************)
(* The same table and runner with callbacks that take the ButtonInput and  *)
(* the Keymapper<T> itself as parameters.                                  *)
(***************************************************************************)
\* One frame with the ButtonInput x in the World, its just-pressed keys
\* collected in the order keycodes from the clone taken before dispatch
TickCb(x, keycodes) ==
    /\ exists
    /\ \E r \in {RunnerSystemOn(keymaps, world, x, keycodes)} :
          /\ exists' = r.manager_in_world
          /\ keymaps' = r.keymaps
          /\ world' = r.world
          /\ obs' = [NoObs EXCEPT !.op = "tick", !.just = GetJustPressed(x),
                                  !.keycodes = keycodes, !.input = r.input,
                                  !.calls = r.calls,
                                  !.returns = r.returns, !.result = r.result,
                                  !.logged = r.logged,
                                  !.prev_failed = FailedCalls(obs.calls),
                                  !.pre_exists = exists,
                                  !.pre_keymaps = keymaps, !.pre_world = world]
    /\ UNCHANGED removed

\* The ButtonInputs of frames in which no key is held from an earlier frame
FreshInputs == {x \in Inputs : x.pressed = x.just_pressed}

\* App::new() without the resource R
InitCb == Init /\ world = {}

NextCb ==
    \/ \E l \in Labels, k \in KeyCodes, fn \in CallbackFns : AddKeymap(l, k, fn)
    \/ \E l \in Labels : Remove(l)
    \/ \E x \in FreshInputs : \E keycodes \in Orderings(GetJustPressed(x)) : TickCb(x, keycodes)

SpecCb == InitCb /\ [][NextCb]_vars

(***************************************************************************)
(* Reading the record of the last operation                                *)
(***************************************************************************)
IsTick == obs.op = "tick"

Pre == obs.pre_keymaps

RunOps == {"run_ok", "run_err"}

\* How many times the callback of the binding at index i was executed
ExecCount(i) ==
    Cardinality({n \in DOMAIN obs.calls : obs.calls[n].i = i /\ obs.calls[n].op \in RunOps})

\* How many times the system of the binding at index i was initialized
InitCount(i) ==
    Cardinality({n \in DOMAIN obs.calls : obs.calls[n].i = i /\ obs.calls[n].op = "initialize"})

\* The execution of the binding at index i failed
Failed(i) == i \in FailedCalls(obs.calls)

SomeFailed == FailedCalls(obs.calls) # {}

\* The same bindings in the same order, whatever was done to their systems
SameShape(ks1, ks2) ==
    /\ Len(ks1) = Len(ks2)
    /\ \A i \in DOMAIN ks1 :
          /\ ks1[i].label = ks2[i].label
          /\ ks1[i].keycode = ks2[i].keycode
          /\ ks1[i].system.fn = ks2[i].system.fn

RECURSIVE Replay(_, _)
\* The World after the deferred commands of the successful runs among calls,
\* each applied as soon as its callback returned
Replay(calls, w) ==
    IF calls = <<>> THEN w
    ELSE Replay(Tail(calls),
                IF Head(calls).op = "run_ok"
                THEN ApplyQueue(RunQueued(Pre[Head(calls).i].system.fn), w)
                ELSE w)

(***************************************************************************)
(* C1: in a tick, every binding whose key is just-pressed and before which *)
(* no binding of the same key failed runs its callback exactly once.       *)
(* The runner aborts the whole tick at the first failure, so a failure on  *)
(* another key that was dispatched first breaks it.                        *)
(***************************************************************************)
C1_ExecutedUnlessSameKeyFailed ==
    IsTick =>
      \A i \in DOMAIN Pre :
         (/\ Pre[i].keycode \in obs.just
          /\ ~\E j \in 1..(i - 1) : Pre[j].keycode = Pre[i].keycode /\ Failed(j))
         => ExecCount(i) = 1

(***************************************************************************)
(* C2: the initialize step of a binding's system runs at most once in the  *)
(* binding's lifetime, exactly once as soon as Keymapper::run reached the  *)
(* binding with a matching keycode (whether the callback then succeeded or *)
(* failed), and never again on a later matching tick.                      *)
(***************************************************************************)
C2_InitializeOnce ==
    /\ \A i \in DOMAIN keymaps :
          /\ keymaps[i].system.inits <= 1
          /\ keymaps[i].system.attempted <=> keymaps[i].system.inits = 1
    /\ IsTick =>
          \A i \in DOMAIN Pre :
             /\ InitCount(i) <= 1
             /\ Pre[i].system.inits = 1 => InitCount(i) = 0
             /\ (Pre[i].system.inits = 0 /\ ExecCount(i) >= 1) => InitCount(i) = 1
             /\ keymaps[i].system.inits = Pre[i].system.inits + InitCount(i)

\* A binding initialized on an earlier tick is executed again, fails, and
\* its system has still been initialized once only.
C2_Witness ==
    /\ IsTick
    /\ \E i \in DOMAIN Pre :
          /\ Pre[i].system.inits = 1
          /\ Pre[i].system.attempted
          /\ Failed(i)
          /\ keymaps[i].system.inits = 1

(***************************************************************************)
(* C3: the documented behaviour of the runner: when a keymap system fails  *)
(* the error is logged and the other keymaps are still processed, so every *)
(* binding whose key is just-pressed is executed in the tick.              *)
(***************************************************************************)
C3_ContinuesAfterError ==
    IsTick =>
      /\ SomeFailed => obs.logged >= 1
      /\ \A i \in DOMAIN Pre : Pre[i].keycode \in obs.just => ExecCount(i) = 1

(***************************************************************************)
(* C4: fail-fast dispatch.  A failing callback is the last call of the     *)
(* tick; each Keymapper::run returns Ok exactly when no callback of its    *)
(* keycode failed, and only the last run of a tick can return Err; the     *)
(* runner's result is Err exactly when a callback failed; the World holds  *)
(* the effects of the callbacks that succeeded before the failure.         *)
(***************************************************************************)
C4_FailFast ==
    IsTick =>
      /\ \A n \in DOMAIN obs.calls : obs.calls[n].op = "run_err" => n = Len(obs.calls)
      /\ Len(obs.returns) <= Len(obs.keycodes)
      /\ \A j \in DOMAIN obs.returns :
            /\ obs.returns[j].keycode = obs.keycodes[j]
            /\ obs.returns[j].result = "ok" <=>
                  ~\E i \in DOMAIN Pre : Pre[i].keycode = obs.keycodes[j] /\ Failed(i)
            /\ obs.returns[j].result = "err" => j = Len(obs.returns)
      /\ obs.result = "ok" => Len(obs.returns) = Len(obs.keycodes)
      /\ obs.result = "err" <=> SomeFailed
      /\ \A i \in DOMAIN Pre :
            (ExecCount(i) = 0 /\ Pre[i].keycode \in obs.just) => SomeFailed
      /\ world = Replay(obs.calls, obs.pre_world)

\* A callback changed the World, a later one failed, and a binding whose
\* key was pressed was not executed.
C4_Witness ==
    /\ IsTick
    /\ obs.result = "err"
    /\ world # obs.pre_world
    /\ \E i \in DOMAIN Pre : Pre[i].keycode \in obs.just /\ ExecCount(i) = 0

(***************************************************************************)
(* C5: remove(L) leaves no binding with label L, and leaves the bindings   *)
(* with another label, unchanged and in the same relative order.           *)
(***************************************************************************)
Others(ks, label) == {i \in DOMAIN ks : ks[i].label # label}

\* The n-th smallest index of the set of indices S
NthOf(S, n) == CHOOSE i \in S : Cardinality({j \in S : j < i}) = n - 1

C5_RemoveFilters ==
    obs.op = "remove" =>
      /\ \A i \in DOMAIN keymaps : keymaps[i].label # obs.label
      /\ Len(keymaps) = Cardinality(Others(Pre, obs.label))
      /\ \A n \in DOMAIN keymaps : keymaps[n] = Pre[NthOf(Others(Pre, obs.label), n)]
      /\ (\A i \in DOMAIN Pre : Pre[i].label # obs.label) => keymaps = Pre

\* Two bindings with the label are removed around an initialized binding
\* with another label.
C5_Witness ==
    /\ obs.op = "remove"
    /\ Len(Pre) = 3
    /\ Pre[1].label = obs.label
    /\ Pre[3].label = obs.label
    /\ Pre[2].label # obs.label
    /\ Pre[2].initialized
    /\ Len(keymaps) = 1

(***************************************************************************)
(* C6: when several bindings share a just-pressed key and none of them     *)
(* fails, all of them execute in the tick, in table order.  A failure on   *)
(* another key dispatched first keeps them from running.                   *)
(***************************************************************************)
SameKey(k) == {i \in DOMAIN Pre : Pre[i].keycode = k}

\* The index of the first execution of binding i among the calls (0: none)
ExecAt(i) ==
    IF ExecCount(i) = 0 THEN 0
    ELSE CHOOSE n \in DOMAIN obs.calls :
            /\ obs.calls[n].i = i /\ obs.calls[n].op \in RunOps
            /\ \A m \in 1..(n - 1) : ~(obs.calls[m].i = i /\ obs.calls[m].op \in RunOps)

C6_SameKeyAllInOrder ==
    IsTick =>
      \A k \in obs.just :
         (Cardinality(SameKey(k)) >= 2 /\ \A i \in SameKey(k) : ~Failed(i)) =>
            /\ \A i \in SameKey(k) : ExecCount(i) = 1
            /\ \A i, j \in SameKey(k) : i < j => ExecAt(i) < ExecAt(j)

(***************************************************************************)
(* C7: the deferred commands of a callback are applied before the next     *)
(* callback of the tick runs: every callback observes the World with the   *)
(* commands of all earlier callbacks applied, apply_deferred follows each  *)
(* successful run at once, and no command stays queued.                    *)
(***************************************************************************)
C7_DeferredBeforeNext ==
    /\ \A i \in DOMAIN keymaps : keymaps[i].system.queue = <<>>
    /\ IsTick =>
          \A n \in DOMAIN obs.calls :
             /\ obs.calls[n].op \in RunOps =>
                   obs.calls[n].world = Replay(SubSeq(obs.calls, 1, n - 1), obs.pre_world)
             /\ obs.calls[n].op = "run_ok" =>
                   /\ n < Len(obs.calls)
                   /\ obs.calls[n + 1].op = "apply_deferred"
                   /\ obs.calls[n + 1].i = obs.calls[n].i

\* A callback that needs R runs successfully in a tick that began without
\* R: an earlier callback of the tick queued its insertion.
C7_Witness ==
    /\ IsTick
    /\ "R" \notin obs.pre_world
    /\ \E n, m \in DOMAIN obs.calls :
          /\ n < m
          /\ obs.calls[n].op = "run_ok"
          /\ Pre[obs.calls[n].i].system.fn = "ins"
          /\ obs.calls[m].op = "run_ok"
          /\ Pre[obs.calls[m].i].system.fn = "take"
          /\ "R" \in obs.calls[m].world

(***************************************************************************)
(* C8: a failing callback is not disabled or removed: the tick returns     *)
(* with one error line, the table keeps its bindings, and a binding that   *)
(* failed in one tick is attempted in the next tick that presses its key.  *)
(* The runner stops the tick at the first failure, so a binding that       *)
(* failed the tick before is not attempted when a callback dispatched      *)
(* before it fails.                                                        *)
(***************************************************************************)
C8_Original ==
    IsTick =>
      /\ obs.logged = (IF SomeFailed THEN 1 ELSE 0)
      /\ SameShape(keymaps, Pre)
      /\ \A i \in obs.prev_failed : Pre[i].keycode \in obs.just => ExecCount(i) = 1

(***************************************************************************)
(* C9: a tick with no just-pressed key executes and initializes nothing    *)
(* and leaves the World and the table as they were.                        *)
(***************************************************************************)
C9_EmptyTick ==
    (IsTick /\ obs.just = {}) =>
      /\ obs.calls = <<>>
      /\ obs.returns = <<>>
      /\ obs.result = "ok"
      /\ obs.logged = 0
      /\ keymaps = Pre
      /\ world = obs.pre_world

\* An empty tick over a table that holds a binding never initialized and a
\* binding that could change the World.
C9_Witness ==
    /\ IsTick
    /\ obs.just = {}
    /\ \E i, j \in DOMAIN keymaps :
          /\ ~keymaps[i].initialized
          /\ keymaps[j].system.fn = "ins"
          /\ "R" \notin world

(***************************************************************************)
(* C10: after remove(L) no binding that had label L is executed by a later *)
(* tick, and the bindings left in the table are dispatched as before: each *)
(* one whose key is pressed is executed once, unless a failure ended the   *)
(* tick before it.                                                         *)
(***************************************************************************)
C10_RemovedNeverRuns ==
    /\ \A i \in DOMAIN keymaps : keymaps[i].label \notin {x.label : x \in removed}
    /\ IsTick =>
          /\ \A n \in DOMAIN obs.calls :
                /\ obs.calls[n].i \in DOMAIN keymaps
                /\ keymaps[obs.calls[n].i].label \notin {x.label : x \in removed}
          /\ \A i \in DOMAIN keymaps :
                keymaps[i].keycode \in obs.just => (ExecCount(i) = 1 \/ SomeFailed)

\* The scenario: a binding (Space, B) was removed, (Space, A) is first in
\* the table, Space is pressed and the binding with label A is executed.
C10_Witness ==
    /\ IsTick
    /\ [label |-> "B", keycode |-> "Space"] \in removed
    /\ "Space" \in obs.just
    /\ Len(keymaps) = 1
    /\ keymaps[1].label = "A"
    /\ keymaps[1].keycode = "Space"
    /\ Len(obs.calls) >= 1
    /\ ExecCount(1) = 1

(***************************************************************************)
(* C11: add_keymap creates the Keymapper<T> table when there is none,      *)
(* appends the new binding at the end with initialized = false and a       *)
(* system nothing was called on, and leaves every binding already in the   *)
(* table, and the World, as they were.                                     *)
(***************************************************************************)
C11_AddAppendsFresh ==
    obs.op = "add" =>
      /\ exists
      /\ ~obs.pre_exists => Pre = <<>>
      /\ Len(keymaps) = Len(Pre) + 1
      /\ \A i \in DOMAIN Pre : keymaps[i] = Pre[i]
      /\ keymaps[Len(keymaps)].label = obs.label
      /\ keymaps[Len(keymaps)].keycode = obs.keycode
      /\ keymaps[Len(keymaps)].system.fn = obs.fn
      /\ ~keymaps[Len(keymaps)].initialized
      /\ keymaps[Len(keymaps)].system.inits = 0
      /\ ~keymaps[Len(keymaps)].system.attempted
      /\ world = obs.pre_world

\* A binding is appended to a table that holds an initialized binding and
\* one never initialized.
C11_Witness ==
    /\ obs.op = "add"
    /\ Len(Pre) = 2
    /\ Pre[1].initialized
    /\ ~Pre[2].initialized
    /\ Len(keymaps) = 3

(***************************************************************************)
(* C12: Keymapper::new(initial) holds exactly the given bindings in the    *)
(* given order, and every binding of the new table has initialized =       *)
(* false.  A binding taken from a table that dispatched it comes with      *)
(* initialized = true, and new keeps it.                                   *)
(***************************************************************************)
C12_Original ==
    obs.op = "keymapper_new" =>
      /\ SameShape(keymaps, obs.given)
      /\ \A i \in DOMAIN keymaps : ~keymaps[i].initialized

\* C12 as amended: the new table holds exactly the given bindings in the
\* given order, each with the initialized flag and the system it came
\* with: false for a binding never dispatched, true for one taken from a
\* table that dispatched it.
C12_NewKeepsBindings ==
    obs.op = "keymapper_new" =>
      /\ Len(keymaps) = Len(obs.given)
      /\ \A i \in DOMAIN keymaps :
            /\ keymaps[i].label = obs.given[i].label
            /\ keymaps[i].keycode = obs.given[i].keycode
            /\ keymaps[i].system = obs.given[i].system
            /\ keymaps[i].initialized = obs.given[i].initialized
            /\ keymaps[i].initialized <=> keymaps[i].system.inits = 1

\* The given list is the tail of a table: a dispatched binding followed by
\* one never dispatched.
C12_Witness ==
    /\ obs.op = "keymapper_new"
    /\ Len(obs.given) = 2
    /\ obs.given[1].initialized
    /\ ~obs.given[2].initialized
    /\ Len(keymaps) = 2

(***************************************************************************)
(* C14: within one tick the executed bindings run in binding-table order,  *)
(* also when more than one key is just-pressed: of two executed bindings   *)
(* the one earlier in the table runs first.  The runner walks the table    *)
(* once per key, so a binding of the key iterated first runs before an     *)
(* earlier binding of the key iterated second.                             *)
(***************************************************************************)
C14_Original ==
    IsTick =>
      \A i, j \in DOMAIN Pre :
         (i < j /\ ExecCount(i) >= 1 /\ ExecCount(j) >= 1) => ExecAt(i) < ExecAt(j)

\* The position of key k in the order in which the tick iterated the keys
KeyPos(k) ==
    IF \E n \in DOMAIN obs.keycodes : obs.keycodes[n] = k
    THEN CHOOSE n \in DOMAIN obs.keycodes : obs.keycodes[n] = k
    ELSE 0

\* C14 as amended: the executed bindings run key by key in the order in
\* which the just-pressed keys are iterated, and in table order among the
\* bindings of one key; no binding runs twice.
C14_KeyMajorOrder ==
    IsTick =>
      \A i, j \in DOMAIN Pre :
         (ExecCount(i) >= 1 /\ ExecCount(j) >= 1) =>
            /\ ExecCount(i) = 1
            /\ ExecAt(i) < ExecAt(j) <=>
                  \/ KeyPos(Pre[i].keycode) < KeyPos(Pre[j].keycode)
                  \/ Pre[i].keycode = Pre[j].keycode /\ i < j

\* Two keys pressed, three bindings executed: the two later bindings, of
\* the key iterated first, run in table order and before the first binding.
C14_Witness ==
    /\ IsTick
    /\ Len(obs.keycodes) = 2
    /\ Len(Pre) = 3
    /\ \A i \in DOMAIN Pre : ExecCount(i) = 1
    /\ ExecAt(2) < ExecAt(3)
    /\ ExecAt(3) < ExecAt(1)

\* The callback of the binding at index i returned Ok in this tick
Succeeded(i) == \E n \in DOMAIN obs.calls : obs.calls[n].i = i /\ obs.calls[n].op = "run_ok"

(***************************************************************************)
(* C15: a binding's initialized flag becomes true on its first successful  *)
(* execution attempt: a binding not initialized before a tick in which its *)
(* callback did not succeed is still not initialized after it.  The runner *)
(* sets the flag before it runs the callback, so a first attempt that      *)
(* fails leaves it true.                                                   *)
(***************************************************************************)
C15_Original ==
    IsTick =>
      \A i \in DOMAIN Pre :
         (~Pre[i].initialized /\ ~Succeeded(i)) => ~keymaps[i].initialized

\* C15 as amended: the flag is mutated only by the runner and becomes true
\* on the binding's first execution attempt, whether the callback succeeds
\* or fails: it is true exactly for the bindings whose callback was ever
\* attempted, a tick sets it for the bindings it attempts and for no other,
\* add_keymap and Keymapper::new leave it as it is, and once true it never
\* returns to false.
C15_InitializedOnFirstAttempt ==
    /\ \A i \in DOMAIN keymaps : keymaps[i].initialized <=> keymaps[i].system.attempted
    /\ IsTick =>
          \A i \in DOMAIN Pre :
             /\ Pre[i].initialized => keymaps[i].initialized
             /\ ExecCount(i) >= 1 => keymaps[i].initialized
             /\ ExecCount(i) = 0 => keymaps[i].initialized = Pre[i].initialized
    /\ obs.op = "add" =>
          \A i \in DOMAIN Pre : keymaps[i].initialized = Pre[i].initialized
    /\ obs.op = "keymapper_new" =>
          \A i \in DOMAIN keymaps : keymaps[i].initialized = obs.given[i].initialized

\* The first attempt of a binding fails and the binding is initialized.
C15_Witness ==
    /\ IsTick
    /\ \E i \in DOMAIN Pre :
          /\ ~Pre[i].initialized
          /\ ~Pre[i].system.attempted
          /\ Failed(i)
          /\ keymaps[i].initialized

(***************************************************************************)
(* C13: a callback the runner executes can remove (by label) bindings of   *)
(* the Keymapper<T> it was dispatched from: after a tick that executed a   *)
(* callback whose body is manager.remove(B), no binding labelled B is left *)
(* in the table.  resource_scope keeps Keymapper<T> out of the World while *)
(* the callbacks run, so such a callback fails and removes nothing.        *)
(***************************************************************************)
C13_Original ==
    IsTick =>
      \A i \in DOMAIN Pre :
         (Pre[i].system.fn = "unbind" /\ ExecCount(i) >= 1) =>
            \A j \in DOMAIN keymaps : keymaps[j].label # "B"

\* C13 as amended: the table is mutated at runtime by host code between
\* ticks (add_keymap appends, remove drops the label for the dispatches
\* that follow), not by the callbacks the runner executes: every execution
\* of a callback that takes Keymapper<T> fails, and the tick leaves the
\* bindings of the table as they were.
C13_OnlyHostMutatesTable ==
    /\ IsTick =>
          /\ \A n \in DOMAIN obs.calls :
                Pre[obs.calls[n].i].system.fn = "unbind" => obs.calls[n].op # "run_ok"
          /\ \A i \in DOMAIN Pre :
                (Pre[i].system.fn = "unbind" /\ ExecCount(i) >= 1) => Failed(i)
          /\ SameShape(keymaps, Pre)
    /\ obs.op = "remove" => \A j \in DOMAIN keymaps : keymaps[j].label # obs.label
    /\ obs.op = "add" => keymaps[Len(keymaps)].label = obs.label

\* A callback that takes Keymapper<T> to remove label B is executed, fails,
\* and a binding labelled B is still in the table.
C13_Witness ==
    /\ IsTick
    /\ \E i \in DOMAIN Pre :
          /\ Pre[i].system.fn = "unbind"
          /\ Failed(i)
    /\ \E j \in DOMAIN keymaps : keymaps[j].label = "B"
    /\ obs.logged = 1

(***************************************************************************)
(* C16: the keys dispatched in a tick are the just-pressed keys collected  *)
(* before the first callback ran: each Keymapper::run of the tick is for   *)
(* the next key of that Vec, only bindings of those keys are executed, and *)
(* unless a callback fails every binding of those keys is executed once,   *)
(* whatever the callbacks did to the ButtonInput in the meantime.          *)
(***************************************************************************)
C16_SnapshotDispatch ==
    IsTick =>
      /\ Range(obs.keycodes) = obs.just
      /\ Len(obs.returns) <= Len(obs.keycodes)
      /\ \A n \in DOMAIN obs.returns : obs.returns[n].keycode = obs.keycodes[n]
      /\ obs.result = "ok" => Len(obs.returns) = Len(obs.keycodes)
      /\ \A n \in DOMAIN obs.calls : Pre[obs.calls[n].i].keycode \in obs.just
      /\ ~SomeFailed => \A i \in DOMAIN Pre : Pre[i].keycode \in obs.just => ExecCount(i) = 1

\* Space is just-pressed; the first callback clears the input and presses
\* KeyX: the second binding of Space is executed all the same and the
\* binding of KeyX is not.
C16_Witness ==
    /\ IsTick
    /\ obs.just = {"Space"}
    /\ obs.input.just_pressed = {"KeyX"}
    /\ Len(Pre) = 3
    /\ Pre[1].keycode = "Space" /\ Pre[1].system.fn = "press" /\ ExecCount(1) = 1
    /\ Pre[2].keycode = "Space" /\ ExecCount(2) = 1
    /\ Pre[3].keycode = "KeyX" /\ ExecCount(3) = 0

\* The keys for which the tick called Keymapper::run
Dispatched == {obs.returns[n].keycode : n \in DOMAIN obs.returns}

(***************************************************************************)
(* C17: a tick never changes the structure of the table: after the runner  *)
(* returned, dispatch having succeeded or failed, Keymapper<T> is in the   *)
(* World again with the same bindings in the same order (labels, keys,     *)
(* systems); an initialized flag that changed went from false to true and  *)
(* belongs to a binding whose key was dispatched.                          *)
(***************************************************************************)
C17_TickKeepsStructure ==
    IsTick =>
      /\ exists
      /\ SameShape(keymaps, Pre)
      /\ \A i \in DOMAIN Pre :
            keymaps[i].initialized # Pre[i].initialized =>
               /\ ~Pre[i].initialized
               /\ keymaps[i].initialized
               /\ Pre[i].keycode \in Dispatched

\* A failing tick: one binding got initialized, another was not dispatched.
C17_Witness ==
    /\ IsTick
    /\ obs.result = "err"
    /\ exists
    /\ Len(keymaps) >= 2
    /\ \E i \in DOMAIN Pre : ~Pre[i].initialized /\ keymaps[i].initialized
    /\ \E i \in DOMAIN Pre : ~Pre[i].initialized /\ ~keymaps[i].initialized

\* The position among the calls of the execution that failed (0: none)
FailedAt ==
    IF SomeFailed THEN CHOOSE n \in DOMAIN obs.calls : obs.calls[n].op = "run_err" ELSE 0

RECURSIVE ReplayStaged(_, _)
\* The World after the successful runs among calls: apply_deferred applies
\* what was left in the buffer of the system before the tick, then what the
\* run queued
ReplayStaged(calls, w) ==
    IF calls = <<>> THEN w
    ELSE ReplayStaged(Tail(calls),
                      IF Head(calls).op = "run_ok"
                      THEN ApplyQueue(Pre[Head(calls).i].system.queue
                                         \o RunQueued(Pre[Head(calls).i].system.fn), w)
                      ELSE w)

(***************************************************************************)
(* C18: when a callback fails, the deferred mutations it staged are not    *)
(* applied in that tick: the failed execution is the last call of the      *)
(* tick, no apply_deferred is made on the failing system, what it queued   *)
(* is still in its buffer after the tick, and the World is the one the     *)
(* failing callback ran against, which holds the effects of the callbacks  *)
(* completed before it and nothing else.                                   *)
(***************************************************************************)
C18_FailureSkipsDeferred ==
    (IsTick /\ SomeFailed) =>
      /\ FailedAt = Len(obs.calls)
      /\ \A n \in DOMAIN obs.calls :
            obs.calls[n].op = "apply_deferred" =>
               /\ n > 1
               /\ obs.calls[n - 1].op = "run_ok"
               /\ obs.calls[n - 1].i = obs.calls[n].i
      /\ \A i \in FailedCalls(obs.calls) :
            keymaps[i].system.queue = Pre[i].system.queue \o RunQueuedErr(Pre[i].system.fn)
      /\ world = obs.calls[FailedAt].world
      /\ world = ReplayStaged(SubSeq(obs.calls, 1, FailedAt - 1), obs.pre_world)

\* A callback completes and its commands remove R, then a callback queues
\* the insertion of R and fails: R is not in the World after the tick and
\* the insertion is still staged.
C18_Witness ==
    /\ IsTick
    /\ SomeFailed
    /\ \E n \in 1..(FailedAt - 1) : obs.calls[n].op = "apply_deferred"
    /\ "R" \in obs.pre_world
    /\ \E i \in FailedCalls(obs.calls) :
          /\ Pre[i].system.fn = "stage"
          /\ Pre[i].system.queue = <<>>
          /\ keymaps[i].system.queue = <<[cmd |-> "insert", res |-> "R"]>>
    /\ "R" \notin world

(***************************************************************************)
(* C19: a binding whose key is not just-pressed in a tick is neither       *)
(* executed nor initialized in it: every call of the tick is on a binding  *)
(* whose keycode is one of the pressed keys, the other bindings come out   *)
(* of the tick as they went in, and a binding never matched has            *)
(* initialized = false and a system never initialized.                     *)
(***************************************************************************)
C19_UnmatchedUntouched ==
    /\ IsTick =>
          /\ \A n \in DOMAIN obs.calls : Pre[obs.calls[n].i].keycode \in obs.just
          /\ \A i \in DOMAIN Pre :
                Pre[i].keycode \notin obs.just =>
                   /\ ExecCount(i) = 0
                   /\ InitCount(i) = 0
                   /\ keymaps[i] = Pre[i]
    /\ \A i \in DOMAIN keymaps :
          ~keymaps[i].system.attempted =>
             /\ ~keymaps[i].initialized
             /\ keymaps[i].system.inits = 0

\* A tick executes a binding of the pressed key and leaves a binding of
\* the other key, never initialized, alone.
C19_Witness ==
    /\ IsTick
    /\ obs.just # {}
    /\ \E i \in DOMAIN Pre : ExecCount(i) = 1
    /\ \E i \in DOMAIN Pre :
          /\ Pre[i].keycode \notin obs.just
          /\ ~keymaps[i].initialized
          /\ keymaps[i].system.inits = 0

====
